---- MODULE Spec2Model ----
(***************************************************************************)
(* Monte Carlo projection of a partially played competition.               *)
(*                                                                         *)
(* The model follows src/monte_carlo_sim.py (MonteCarloSimulator) and the  *)
(* parts of src/football_db.py it relies on (Team, Match, get_standings).  *)
(* A snapshot (self.teams, self.matches) is handed to the simulator;       *)
(* run_simulations(n) performs n runs, each on a deep copy, and folds the  *)
(* final points of every run into three accumulators, from which the       *)
(* returned statistics are computed.                                       *)
(*                                                                         *)
(* Team keys are 1..T and stand for the insertion order of the teams       *)
(* mapping (a Python dict iterates in insertion order).  A float is        *)
(* modelled exactly: a sampled score in half goals, a quotient as the pair *)
(* of its numerator and denominator.                                       *)
(***************************************************************************)
EXTENDS Integers, Sequences, FiniteSets, TLC

VARIABLES
    teams,               \* self.teams: team key -> tally (the caller's snapshot)
    matches,             \* self.matches: list of fixtures (the caller's snapshot)
    pc,                  \* where run_simulations stands
    n_simulations,       \* argument of run_simulations
    i,                   \* loop index of run_simulations: runs completed
    teams_copy,          \* working teams of the current run
    matches_copy,        \* working fixtures of the current run
    k,                   \* index of the fixture the run's for-loop is at
    home_strength,       \* simulate_match: local of the latest call
    away_strength,       \* simulate_match: local of the latest call
    sorted_teams,        \* run_simulations: team keys of the latest run, in rank order
    final_positions,     \* team -> (position -> count), a defaultdict of defaultdicts
    points_distribution, \* team -> list of final points, a defaultdict(list)
    qualification_count, \* team -> count, a defaultdict(int)
    results,             \* what run_simulations returned
    progress             \* the progress lines the call has printed

vars == <<teams, matches, pc, n_simulations, i, teams_copy, matches_copy, k,
          home_strength, away_strength, sorted_teams, final_positions,
          points_distribution, qualification_count, results, progress>>

----------------------------------------------------------------------------
(* Bounds of the model *)

MaxTeams == 2
MaxMatches == 2
MaxGoals == 1
MaxSample2 == 2
MaxRuns == 2
\* the code prints a progress line on every 1000th turn of its loop; the model
\* on every ProgressEvery-th
ProgressEvery == 2

(* Constants of the program *)

None == -1
HOME_ADVANTAGE == 10
QUALIFY_CUTOFF == 8
WIN_POINTS == 3
DRAW_POINTS == 1

----------------------------------------------------------------------------
(* Helpers *)

Max(a, b) == IF a >= b THEN a ELSE b

Min(a, b) == IF a <= b THEN a ELSE b

RECURSIVE SumSeq(_)
SumSeq(s) == IF s = <<>> THEN 0 ELSE Head(s) + SumSeq(Tail(s))

RECURSIVE MinSeq(_)
MinSeq(s) == IF Len(s) = 1 THEN s[1] ELSE Min(Head(s), MinSeq(Tail(s)))

RECURSIVE MaxSeq(_)
MaxSeq(s) == IF Len(s) = 1 THEN s[1] ELSE Max(Head(s), MaxSeq(Tail(s)))

RECURSIVE SumOver(_, _)
SumOver(f, S) ==
    IF S = {} THEN 0
    ELSE LET x == CHOOSE y \in S : TRUE IN f[x] + SumOver(f, S \ {x})

\* d[key] of a defaultdict read without inserting: the default when absent
Get(d, key, default) == IF key \in DOMAIN d THEN d[key] ELSE default

\* d[key] = value on a dict: the key is added when absent
Put(d, key, value) == [x \in (DOMAIN d) \cup {key} |-> IF x = key THEN value ELSE d[x]]

EmptyDict == [x \in {} |-> 0]

----------------------------------------------------------------------------
(* football_db.Team *)

NewTeam ==
    [matches_played |-> 0, wins |-> 0, draws |-> 0, losses |-> 0,
     goals_for |-> 0, goals_against |-> 0, points |-> 0]

goal_difference(t) == t.goals_for - t.goals_against

\* update_stats with the win branch forgetting wins += 1
update_stats_win_uncounted(t, gf, ga) ==
    LET base == [t EXCEPT !.matches_played = @ + 1,
                          !.goals_for = @ + gf,
                          !.goals_against = @ + ga]
    IN  IF gf > ga
        THEN [base EXCEPT !.points = @ + WIN_POINTS]
        ELSE IF gf = ga
        THEN [base EXCEPT !.draws = @ + 1, !.points = @ + DRAW_POINTS]
        ELSE [base EXCEPT !.losses = @ + 1]

\* update_stats taking equal scores for a win: goals_for >= goals_against
update_stats_draw_as_win(t, gf, ga) ==
    LET base == [t EXCEPT !.matches_played = @ + 1,
                          !.goals_for = @ + gf,
                          !.goals_against = @ + ga]
    IN  IF gf >= ga
        THEN [base EXCEPT !.wins = @ + 1, !.points = @ + WIN_POINTS]
        ELSE [base EXCEPT !.losses = @ + 1]

update_stats(t, gf, ga) ==
    LET base == [t EXCEPT !.matches_played = @ + 1,
                          !.goals_for = @ + gf,
                          !.goals_against = @ + ga]
    IN  IF gf > ga
        THEN [base EXCEPT !.wins = @ + 1, !.points = @ + WIN_POINTS]
        ELSE IF gf = ga
        THEN [base EXCEPT !.draws = @ + 1, !.points = @ + DRAW_POINTS]
        ELSE [base EXCEPT !.losses = @ + 1]

(* football_db.Match *)

NewMatch(home, away, matchday) ==
    [home_team |-> home, away_team |-> away, matchday |-> matchday,
     home_score |-> None, away_score |-> None, played |-> FALSE]

\* set_result forgetting self.played = True
set_result_unflagged(m, hs, as) ==
    [m EXCEPT !.home_score = hs, !.away_score = as]

set_result(m, hs, as) ==
    [m EXCEPT !.home_score = hs, !.away_score = as, !.played = TRUE]

----------------------------------------------------------------------------
(* sorted(..., reverse=True): a stable sort, so keys that compare equal keep *)
(* the order in which the mapping yields them (insertion order, here 1..T).  *)

\* KeyGt[a, b]: whether the sort key of a is greater than that of b
\* an ascending stable sort reversed afterwards, sorted(...)[::-1]: keys that
\* compare equal come out in the reverse of their original order
StableSortDescTiesReversed(S, KeyGt) ==
    LET Before(a, b) == KeyGt[a, b] \/ (~KeyGt[b, a] /\ a > b)
        ahead == [x \in S |-> Cardinality({y \in S : Before(y, x)})] @@ <<>>
    IN  [p \in 1..Cardinality(S) |-> CHOOSE x \in S : ahead[x] = p - 1] @@ <<>>

StableSortDesc(S, KeyGt) ==
    LET Before(a, b) == KeyGt[a, b] \/ (~KeyGt[b, a] /\ a < b)
        ahead == [x \in S |-> Cardinality({y \in S : Before(y, x)})] @@ <<>>
    IN  [p \in 1..Cardinality(S) |-> CHOOSE x \in S : ahead[x] = p - 1] @@ <<>>

\* the 1-based place of team t in a rank order (0 when it is not in it)
Position(order, t) ==
    IF \E p \in DOMAIN order : order[p] = t
    THEN CHOOSE p \in DOMAIN order : order[p] = t
    ELSE 0

\* FootballDatabase.get_standings: key (points, goal_difference, goals_for)
StandingsKeyGt(a, b) ==
    \/ a.points > b.points
    \/ a.points = b.points /\ goal_difference(a) > goal_difference(b)
    \/ a.points = b.points /\ goal_difference(a) = goal_difference(b)
                           /\ a.goals_for > b.goals_for

get_standings(tm) ==
    StableSortDesc(DOMAIN tm,
                   [a \in DOMAIN tm, b \in DOMAIN tm |-> StandingsKeyGt(tm[a], tm[b])])

\* run_simulations: sorted(final_points.items(), key=lambda x: x[1], reverse=True)
SortByPoints(final_points) ==
    StableSortDesc(DOMAIN final_points,
                   [a \in DOMAIN final_points, b \in DOMAIN final_points |->
                       final_points[a] > final_points[b]])

----------------------------------------------------------------------------
(* MonteCarloSimulator.simulate_match *)

\* a sample of random.gauss, in half goals; the normal distribution has the
\* whole real line as support whatever its mean, so every sample is possible
Samples == (-MaxSample2)..MaxSample2

\* int(x): truncation toward zero, x in half goals
IntOf(x2) == IF x2 >= 0 THEN x2 \div 2 ELSE -((-x2) \div 2)

\* the score without the clamp: int(random.gauss(expected, 1.5))
ScoreOfUnclamped(x2) == IntOf(x2)

\* max(0, int(random.gauss(expected, 1.5)))
ScoreOf(x2) == Max(0, IntOf(x2))

\* the scores simulate_match can return for one team
SimulatedScores == {ScoreOf(x2) : x2 \in Samples}

\* the points simulate_match reads for a team: self.teams, the snapshot
StrengthPoints(name) == teams[name].points

----------------------------------------------------------------------------
(* The snapshot handed to the simulator: what create_match and               *)
(* enter_matchday_results leave in the database.                              *)

Goals == 0..MaxGoals

TeamCounts == (2..MaxTeams) \cup {QUALIFY_CUTOFF + 1}

\* the j-th fixture entered: each team meets its successor in the team list
Calendar(T, j) == NewMatch(((j - 1) % T) + 1, (j % T) + 1, j)

\* enter_matchday_results on one fixture: the result on the fixture, the
\* tallies of both teams updated
RECURSIVE BakedTeams(_, _)
BakedTeams(tm, ms) ==
    IF ms = <<>> THEN tm
    ELSE LET m == Head(ms)
             t1 == IF m.played
                   THEN [tm EXCEPT ![m.home_team] =
                            update_stats(@, m.home_score, m.away_score)]
                   ELSE tm
             t2 == IF m.played
                   THEN [t1 EXCEPT ![m.away_team] =
                            update_stats(@, m.away_score, m.home_score)]
                   ELSE t1
         IN  BakedTeams(t2, Tail(ms))

NoResults == [returned |-> FALSE]

Init ==
    /\ \E T \in TeamCounts, m \in 0..MaxMatches :
         \E entered \in [1..m -> {<<None, None>>} \cup (Goals \X Goals)] :
            /\ matches = [j \in 1..m |->
                            IF entered[j] = <<None, None>>
                            THEN Calendar(T, j)
                            ELSE set_result(Calendar(T, j), entered[j][1], entered[j][2])]
            /\ teams = BakedTeams([t \in 1..T |-> NewTeam], matches)
    /\ pc = "idle"
    /\ n_simulations = 0
    /\ i = 0
    /\ teams_copy = EmptyDict
    /\ matches_copy = <<>>
    /\ k = 0
    /\ home_strength = 0
    /\ away_strength = 0
    /\ sorted_teams = <<>>
    /\ final_positions = EmptyDict
    /\ points_distribution = EmptyDict
    /\ qualification_count = EmptyDict
    /\ results = NoResults
    /\ progress = <<>>

----------------------------------------------------------------------------
(* MonteCarloSimulator.run_simulations *)

\* the call: the accumulators are created empty
RunSimulations(n) ==
    /\ pc \in {"idle", "done", "KeyError", "ZeroDivisionError"}
    /\ pc' = "loop"
    /\ n_simulations' = n
    /\ i' = 0
    /\ final_positions' = EmptyDict
    /\ points_distribution' = EmptyDict
    /\ qualification_count' = EmptyDict
    /\ sorted_teams' = <<>>
    /\ results' = NoResults
    /\ teams_copy' = EmptyDict
    /\ matches_copy' = <<>>
    /\ k' = 0
    /\ progress' = <<>>
    /\ UNCHANGED <<teams, matches, home_strength, away_strength>>

\* the loop running one turn too many: range(n_simulations + 1)
LoopContinuesInclusive == i <= n_simulations

\* for i in range(n_simulations): whether the loop has a turn left
LoopContinues == i < n_simulations

\* a shallow copy: the working set holds the snapshot's own objects
SnapshotAfterWriteShared(snapshot, working) == working

\* copy.deepcopy of the snapshot: the working objects are new objects, so what
\* a run writes to its working set leaves the snapshot as it is
SnapshotAfterWrite(snapshot, working) == snapshot

\* the working teams made once for all runs: a run starts with the points the
\* run before it ended with
WorkingTeamsCarried ==
    [name \in DOMAIN teams |->
        IF i >= 1 /\ name \in DOMAIN points_distribution
        THEN [teams[name] EXCEPT !.points = points_distribution[name][i]]
        ELSE teams[name]]

\* teams_copy[name] = copy.deepcopy(team) for every team of self.teams
WorkingTeams == [name \in DOMAIN teams |-> teams[name]]

\* [copy.deepcopy(match) for match in self.matches]
WorkingMatches == [j \in DOMAIN matches |-> matches[j]]

\* if (i + 1) % 1000 == 0: print(Progress: i+1 / n_simulations), the first
\* statement of a turn of the loop
ProgressAtTurn(printed) ==
    IF (i + 1) % ProgressEvery = 0
    THEN Append(printed, [runs_completed |-> i + 1, run_count |-> n_simulations])
    ELSE printed

\* one turn of the loop begins: the progress line, then run_single_simulation
\* with its deep copies
BeginRun ==
    /\ pc = "loop"
    /\ LoopContinues
    /\ teams_copy' = WorkingTeams
    /\ matches_copy' = WorkingMatches
    /\ k' = 1
    /\ pc' = "sim"
    /\ progress' = ProgressAtTurn(progress)
    /\ UNCHANGED <<teams, matches, n_simulations, i, home_strength, away_strength,
                   sorted_teams, final_positions, points_distribution,
                   qualification_count, results>>

\* apply_result with the away team's update taking the scores unswapped
apply_result_unswapped(tc, home, away, home_score, away_score) ==
    LET t1 == [tc EXCEPT ![home] = update_stats(@, home_score, away_score)]
    IN  [t1 EXCEPT ![away] = update_stats(@, home_score, away_score)]

\* simulate_remaining_matches: the tallies of the two teams of a fixture updated,
\* the home team's first
apply_result(tc, home, away, home_score, away_score) ==
    LET t1 == [tc EXCEPT ![home] = update_stats(@, home_score, away_score)]
    IN  [t1 EXCEPT ![away] = update_stats(@, away_score, home_score)]

\* the test left out: every fixture is simulated, the played ones again
NeedsSimulationAlways(match) == TRUE

\* the test inverted: the played fixtures are simulated again, the others skipped
NeedsSimulationInverted(match) == match.played

\* if not match.played: whether the loop simulates this fixture
NeedsSimulation(match) == ~match.played

\* simulate_remaining_matches: one turn of its loop over matches_copy
SimulateFixture ==
    /\ pc = "sim"
    /\ k <= Len(matches_copy)
    /\ \E home_score \in SimulatedScores, away_score \in SimulatedScores :
         LET match == matches_copy[k]
             home == match.home_team
             away == match.away_team
         IN  IF ~NeedsSimulation(match)
             THEN /\ k' = k + 1
                  /\ UNCHANGED <<pc, teams_copy, matches_copy, home_strength, away_strength>>
             ELSE IF home \notin DOMAIN teams \/ away \notin DOMAIN teams
             THEN /\ pc' = "KeyError"
                  /\ UNCHANGED <<k, teams_copy, matches_copy, home_strength, away_strength>>
             ELSE /\ home_strength' = StrengthPoints(home) + HOME_ADVANTAGE
                  /\ away_strength' = StrengthPoints(away)
                  /\ matches_copy' = [matches_copy EXCEPT ![k] =
                                         set_result(@, home_score, away_score)]
                  /\ teams_copy' = apply_result(teams_copy, home, away,
                                                home_score, away_score)
                  /\ k' = k + 1
                  /\ UNCHANGED pc
    /\ teams' = SnapshotAfterWrite(teams, teams_copy')
    /\ matches' = SnapshotAfterWrite(matches, matches_copy')
    /\ UNCHANGED <<n_simulations, i, sorted_teams, final_positions,
                   points_distribution, qualification_count, results, progress>>

\* only the leader counted as qualified: position <= 1
QualifiesLeaderOnly(position) == position <= 1

\* the comparison off by one: position < 8
QualifiesStrictly(position) == position < QUALIFY_CUTOFF

\* whether a team at this position is counted as qualified
Qualifies(position) == position <= QUALIFY_CUTOFF

\* the accumulators after the teams of one run, in rank order, are recorded
FoldPositionsOverwrite(fp, order) ==
    [t \in (DOMAIN fp) \cup {order[p] : p \in DOMAIN order} |->
        LET old == Get(fp, t, EmptyDict)
            pos == Position(order, t)
        IN  IF pos = 0 THEN old ELSE Put(old, pos, 1)]

FoldPositions(fp, order) ==
    [t \in (DOMAIN fp) \cup {order[p] : p \in DOMAIN order} |->
        LET old == Get(fp, t, EmptyDict)
            pos == Position(order, t)
        IN  IF pos = 0 THEN old ELSE Put(old, pos, Get(old, pos, 0) + 1)]

FoldPoints(pd, order, final_points) ==
    [t \in (DOMAIN pd) \cup {order[p] : p \in DOMAIN order} |->
        IF Position(order, t) = 0 THEN pd[t]
        ELSE Append(Get(pd, t, <<>>), final_points[t])]

\* the counter of a qualified team incremented twice in one run
FoldQualificationTwice(qc, order) ==
    LET qualified == {order[p] : p \in {q \in DOMAIN order : Qualifies(q)}}
    IN  [t \in (DOMAIN qc) \cup qualified |->
            IF t \in qualified THEN Get(qc, t, 0) + 2 ELSE qc[t]]

FoldQualification(qc, order) ==
    LET qualified == {order[p] : p \in {q \in DOMAIN order : Qualifies(q)}}
    IN  [t \in (DOMAIN qc) \cup qualified |->
            IF t \in qualified THEN Get(qc, t, 0) + 1 ELSE qc[t]]

\* the three accumulators of run_simulations, as created before the loop
EmptyAccumulators ==
    [final_positions |-> EmptyDict,
     points_distribution |-> EmptyDict,
     qualification_count |-> EmptyDict]

\* the body of the loop of run_simulations as a function: the accumulators
\* after the final points of one run, sorted into order, are folded in
FoldRanked(acc, order, final_points) ==
    [final_positions |-> FoldPositions(acc.final_positions, order),
     points_distribution |->
         FoldPoints(acc.points_distribution, order, final_points),
     qualification_count |-> FoldQualification(acc.qualification_count, order)]

\* the run returns its final points; the body of the loop of run_simulations
FoldRun ==
    /\ pc = "sim"
    /\ k > Len(matches_copy)
    /\ LET final_points == [name \in DOMAIN teams_copy |-> teams_copy[name].points]
       IN  /\ sorted_teams' = SortByPoints(final_points)
           /\ final_positions' = FoldPositions(final_positions, sorted_teams')
           /\ points_distribution' =
                  FoldPoints(points_distribution, sorted_teams', final_points)
           /\ qualification_count' = FoldQualification(qualification_count, sorted_teams')
    /\ i' = i + 1
    /\ pc' = "loop"
    /\ teams_copy' = EmptyDict
    /\ matches_copy' = <<>>
    /\ k' = 0
    /\ UNCHANGED <<teams, matches, n_simulations, home_strength, away_strength, results,
                   progress>>

\* the probabilities computed for every team of the snapshot
ProbabilityTeamsAll == DOMAIN teams

\* the teams the statistics of the result are computed for
ProbabilityTeams == DOMAIN qualification_count

\* the denominators of the divisions of the result
Denominators ==
    {n_simulations : t \in ProbabilityTeams}
        \cup {Len(points_distribution[t]) : t \in DOMAIN points_distribution}

\* a quotient a / b of floats, kept exact
Quotient(a, b) == [num |-> a, den |-> b]

\* the statistics, computed once the loop has ended
Finalise ==
    /\ pc = "loop"
    /\ ~LoopContinues
    /\ IF 0 \in Denominators
       THEN /\ pc' = "ZeroDivisionError"
            /\ UNCHANGED results
       ELSE /\ pc' = "done"
            /\ results' =
                 [returned |-> TRUE,
                  final_positions |-> final_positions,
                  qualification_probability |->
                      [t \in ProbabilityTeams |->
                          Quotient(qualification_count[t] * 100, n_simulations)],
                  average_points |->
                      [t \in DOMAIN points_distribution |->
                          Quotient(SumSeq(points_distribution[t]),
                                   Len(points_distribution[t]))],
                  points_range |->
                      [t \in DOMAIN points_distribution |->
                          <<MinSeq(points_distribution[t]),
                            MaxSeq(points_distribution[t])>>],
                  n_simulations |-> n_simulations]
    /\ UNCHANGED <<teams, matches, n_simulations, i, teams_copy, matches_copy, k,
                   home_strength, away_strength, sorted_teams, final_positions,
                   points_distribution, qualification_count, progress>>

Next ==
    \/ \E n \in 0..MaxRuns : RunSimulations(n)
    \/ BeginRun
    \/ SimulateFixture
    \/ FoldRun
    \/ Finalise

Spec == Init /\ [][Next]_vars

\* the snapshots of the fair specification: leagues of at most MaxTeams teams,
\* every played fixture goalless; the steps of a call depend neither on the
\* qualification cutoff nor on the scores entered
InitFair ==
    /\ Init
    /\ Cardinality(DOMAIN teams) <= MaxTeams
    /\ \A j \in DOMAIN matches :
          matches[j].played => matches[j].home_score + matches[j].away_score = 0

\* the code is one sequential thread: a step that can be taken is taken
SpecFair ==
    /\ InitFair
    /\ [][Next]_vars
    /\ WF_vars(BeginRun \/ SimulateFixture \/ FoldRun \/ Finalise)

----------------------------------------------------------------------------
(* A session of the caller: it may keep the statistics of a call and call    *)
(* again with the same argument, and it may interrupt a call (Ctrl-C).       *)

\* run_simulations called again with the same n_simulations on the same
\* simulator, the statistics of the call before still held by the caller
RunAgain ==
    /\ pc = "done"
    /\ pc' = "loop"
    /\ i' = 0
    /\ final_positions' = EmptyDict
    /\ points_distribution' = EmptyDict
    /\ qualification_count' = EmptyDict
    /\ sorted_teams' = <<>>
    /\ teams_copy' = EmptyDict
    /\ matches_copy' = <<>>
    /\ k' = 0
    /\ progress' = <<>>
    /\ UNCHANGED <<teams, matches, n_simulations, home_strength, away_strength, results>>

\* a KeyboardInterrupt while run_simulations is in its loop: nothing in the
\* loop tests for a cancellation or catches the exception, so it leaves
\* run_simulations and no statistics are returned
Interrupt ==
    /\ pc \in {"loop", "sim"}
    /\ pc' = "KeyboardInterrupt"
    /\ UNCHANGED <<teams, matches, n_simulations, i, teams_copy, matches_copy, k,
                   home_strength, away_strength, sorted_teams, final_positions,
                   points_distribution, qualification_count, results, progress>>

NextSession ==
    \/ Next
    \/ RunAgain
    \/ Interrupt

SpecSession == Init /\ [][NextSession]_vars

----------------------------------------------------------------------------
(* A snapshot read by load_from_file: the file is taken as it is, so a       *)
(* fixture may name a team that is not among the teams.                      *)

\* the j-th fixture of the file: the calendar of T + 1 names, begun at name
\* first + 1; the name T + 1 is not a team of the file
LoadedCalendar(T, first, j) ==
    NewMatch(((j - 1 + first) % (T + 1)) + 1, ((j + first) % (T + 1)) + 1, j)

\* the tallies of the file: those of the teams it has, with the played
\* fixtures counted
RECURSIVE LoadedTeams(_, _)
LoadedTeams(tm, ms) ==
    IF ms = <<>> THEN tm
    ELSE LET m == Head(ms)
             t1 == IF m.played /\ m.home_team \in DOMAIN tm
                   THEN [tm EXCEPT ![m.home_team] =
                            update_stats(@, m.home_score, m.away_score)]
                   ELSE tm
             t2 == IF m.played /\ m.away_team \in DOMAIN tm
                   THEN [t1 EXCEPT ![m.away_team] =
                            update_stats(@, m.away_score, m.home_score)]
                   ELSE t1
         IN  LoadedTeams(t2, Tail(ms))

InitLoaded ==
    /\ \E T \in TeamCounts, m \in 0..MaxMatches :
         \E first \in {T - 2, T},
            entered \in [1..m -> {<<None, None>>} \cup (Goals \X Goals)] :
            /\ matches = [j \in 1..m |->
                            IF entered[j] = <<None, None>>
                            THEN LoadedCalendar(T, first, j)
                            ELSE set_result(LoadedCalendar(T, first, j),
                                            entered[j][1], entered[j][2])]
            /\ teams = LoadedTeams([t \in 1..T |-> NewTeam], matches)
    /\ pc = "idle"
    /\ n_simulations = 0
    /\ i = 0
    /\ teams_copy = EmptyDict
    /\ matches_copy = <<>>
    /\ k = 0
    /\ home_strength = 0
    /\ away_strength = 0
    /\ sorted_teams = <<>>
    /\ final_positions = EmptyDict
    /\ points_distribution = EmptyDict
    /\ qualification_count = EmptyDict
    /\ results = NoResults
    /\ progress = <<>>

SpecLoaded == InitLoaded /\ [][Next]_vars

----------------------------------------------------------------------------
(* The reduction alone: run_simulations with run_single_simulation taken as  *)
(* a function that returns some final points for the teams.                  *)

\* a competition of T teams with nothing entered yet
InitFold ==
    /\ \E T \in TeamCounts : teams = [t \in 1..T |-> NewTeam]
    /\ matches = <<>>
    /\ pc = "idle"
    /\ n_simulations = 0
    /\ i = 0
    /\ teams_copy = EmptyDict
    /\ matches_copy = <<>>
    /\ k = 0
    /\ home_strength = 0
    /\ away_strength = 0
    /\ sorted_teams = <<>>
    /\ final_positions = EmptyDict
    /\ points_distribution = EmptyDict
    /\ qualification_count = EmptyDict
    /\ results = NoResults
    /\ progress = <<>>

\* final points a run can return: those of the teams as they are, and those
\* after one fixture of the calendar with a simulated result
RunOutcomes ==
    {[t \in DOMAIN teams |-> teams[t].points]}
        \cup {[t \in DOMAIN teams |->
                  apply_result(teams, Calendar(Cardinality(DOMAIN teams), j).home_team,
                               Calendar(Cardinality(DOMAIN teams), j).away_team,
                               hs, as)[t].points] :
                 j \in 1..MaxMatches, hs \in SimulatedScores, as \in SimulatedScores}

\* one turn of the loop of run_simulations: a run returns its final points and
\* they are sorted and folded into the accumulators
FoldAnyOutcome ==
    /\ pc = "loop"
    /\ LoopContinues
    /\ \E final_points \in RunOutcomes :
          /\ sorted_teams' = SortByPoints(final_points)
          /\ final_positions' = FoldPositions(final_positions, sorted_teams')
          /\ points_distribution' =
                 FoldPoints(points_distribution, sorted_teams', final_points)
          /\ qualification_count' = FoldQualification(qualification_count, sorted_teams')
    /\ i' = i + 1
    /\ progress' = ProgressAtTurn(progress)
    /\ UNCHANGED <<teams, matches, pc, n_simulations, teams_copy, matches_copy, k,
                   home_strength, away_strength, results>>

NextFold ==
    \/ \E n \in 0..MaxRuns : RunSimulations(n)
    \/ FoldAnyOutcome
    \/ Finalise

SpecFold == InitFold /\ [][NextFold]_vars

----------------------------------------------------------------------------
(* FootballDatabase: the teams mapping and the match list filled by the      *)
(* caller.  Here a team record carries its name, a name is the sequence of   *)
(* its characters, and the teams are held in insertion order, so the place   *)
(* of a record is the place of its key in the dict.                          *)

\* the largest matchday a fixture is created for
MaxMatchday == 2

\* the names the caller may pass: "a", "A", "a " and "b"
TeamNames == {<<"a">>, <<"A">>, <<"a", " ">>, <<"b">>}

Matchdays == 1..MaxMatchday

\* the variables of a simulator, which the database operations do not touch
simulatorVars == <<n_simulations, i, teams_copy, matches_copy, k, home_strength,
                   away_strength, sorted_teams, final_positions,
                   points_distribution, qualification_count, results, progress>>

\* str.lower on one character
LowerChar(c) == IF c = "A" THEN "a" ELSE IF c = "B" THEN "b" ELSE c

\* str.lower
lower(s) == [j \in DOMAIN s |-> LowerChar(s[j])]

\* str.strip: the whitespace at both ends removed
RECURSIVE strip(_)
strip(s) ==
    IF s = <<>> THEN s
    ELSE IF Head(s) = " " THEN strip(Tail(s))
    ELSE IF s[Len(s)] = " " THEN strip(SubSeq(s, 1, Len(s) - 1))
    ELSE s

\* re.sub(r'[^a-z0-9\s]', '', s): only lower-case letters, digits and
\* whitespace are kept
RECURSIVE RemoveSpecial(_)
RemoveSpecial(s) ==
    IF s = <<>> THEN s
    ELSE IF Head(s) \in {"a", "b", " "}
    THEN <<Head(s)>> \o RemoveSpecial(Tail(s))
    ELSE RemoveSpecial(Tail(s))

\* ' '.join(s.split()): every run of whitespace becomes one blank, none is
\* left at either end
RECURSIVE JoinSplit(_)
JoinSplit(s) ==
    LET t == strip(s)
    IN  IF Len(t) <= 1 THEN t
        ELSE IF t[1] = " " /\ t[2] = " " THEN JoinSplit(Tail(t))
        ELSE <<Head(t)>> \o (IF t[2] = " "
                             THEN <<" ">> \o JoinSplit(Tail(t))
                             ELSE JoinSplit(Tail(t)))

\* FootballDatabase.normalize_team_name
normalize_team_name(name) == JoinSplit(RemoveSpecial(strip(lower(name))))

\* sub in s, of two strings
Contains(sub, s) ==
    \E start \in 1..(Len(s) - Len(sub) + 1) :
        SubSeq(s, start, start + Len(sub) - 1) = sub

\* the keys of the teams mapping
TeamKeys(tm) == {tm[p].name : p \in DOMAIN tm}

\* what find_team_fuzzy returns when it finds no team: None, which its callers
\* test with "not", as true of None as of the empty name
NotFound == <<>>

\* the first key, in the order of the mapping, among those at the places S
FirstKeyAmong(tm, S) ==
    IF S = {} THEN NotFound
    ELSE tm[CHOOSE p \in S : \A q \in S : p <= q].name

\* FootballDatabase.find_team_fuzzy: the first exact match ignoring case and
\* surrounding whitespace, else the first normalized match, else the first key
\* that contains the search term, else the first key contained in it
find_team_fuzzy(tm, search_name) ==
    LET normalized_search == normalize_team_name(search_name)
        exact == {p \in DOMAIN tm : strip(lower(tm[p].name)) = strip(lower(search_name))}
        normalized == {p \in DOMAIN tm :
                          normalize_team_name(tm[p].name) = normalized_search}
        partial == {p \in DOMAIN tm :
                       Contains(normalized_search, normalize_team_name(tm[p].name))}
        reverse == {p \in DOMAIN tm :
                       Contains(normalize_team_name(tm[p].name), normalized_search)}
    IN  IF exact # {} THEN FirstKeyAmong(tm, exact)
        ELSE IF normalized # {} THEN FirstKeyAmong(tm, normalized)
        ELSE IF partial # {} THEN FirstKeyAmong(tm, partial)
        ELSE FirstKeyAmong(tm, reverse)

\* the place of key name in the mapping
PlaceOf(tm, name) == CHOOSE p \in DOMAIN tm : tm[p].name = name

\* Team(name, country): a record with the tallies at zero
NamedTeam(name) == [name |-> name] @@ NewTeam

\* FootballDatabase.add_team: self.teams[name] = Team(name, country); a key
\* already in the mapping keeps its place and gets the new record
add_team(tm, name) ==
    IF name \in TeamKeys(tm)
    THEN [tm EXCEPT ![PlaceOf(tm, name)] = NamedTeam(name)]
    ELSE Append(tm, NamedTeam(name))

\* the test of create_match with "and" for "or": it passes when one of the two
\* teams is in the database
BothTeamsExistEither(tm, home_team, away_team) ==
    home_team \in TeamKeys(tm) \/ away_team \in TeamKeys(tm)

\* create_match: not (home_team not in self.teams or away_team not in self.teams)
BothTeamsExist(tm, home_team, away_team) ==
    home_team \in TeamKeys(tm) /\ away_team \in TeamKeys(tm)

\* no simulator at work
NoSimulation ==
    /\ pc = "idle"
    /\ n_simulations = 0
    /\ i = 0
    /\ teams_copy = EmptyDict
    /\ matches_copy = <<>>
    /\ k = 0
    /\ home_strength = 0
    /\ away_strength = 0
    /\ sorted_teams = <<>>
    /\ final_positions = EmptyDict
    /\ points_distribution = EmptyDict
    /\ qualification_count = EmptyDict
    /\ results = NoResults
    /\ progress = <<>>

\* FootballDatabase.__init__: no team, no match
InitDatabase ==
    /\ teams = <<>>
    /\ matches = <<>>
    /\ NoSimulation

\* a call of add_team
AddTeam(name) ==
    /\ name \in TeamKeys(teams) \/ Len(teams) < MaxTeams
    /\ teams' = add_team(teams, name)
    /\ pc' = "idle"
    /\ UNCHANGED matches
    /\ UNCHANGED simulatorVars

\* a call of create_match: ValueError when a team is missing, else a new
\* unplayed fixture at the end of the list
CreateMatch(home_team, away_team, matchday) ==
    /\ Len(matches) < MaxMatches
    /\ IF ~BothTeamsExist(teams, home_team, away_team)
       THEN /\ pc' = "ValueError"
            /\ UNCHANGED matches
       ELSE /\ pc' = "idle"
            /\ matches' = Append(matches, NewMatch(home_team, away_team, matchday))
    /\ UNCHANGED teams
    /\ UNCHANGED simulatorVars

\* the fixtures are those of one matchday, as enter_matchday_calendar creates them
NextCalendar ==
    \/ \E name \in TeamNames : AddTeam(name)
    \/ \E home_team \in TeamNames, away_team \in TeamNames :
          CreateMatch(home_team, away_team, MaxMatchday)

\* any sequence of add_team and create_match calls on a new database
SpecCalendar == InitDatabase /\ [][NextCalendar]_vars

\* enter_matchday_results: [m for m in self.matches
\*                           if m.matchday == matchday and not m.played]
matchday_matches(ms, matchday) ==
    {j \in DOMAIN ms : ms[j].matchday = matchday /\ ~ms[j].played}

\* the tallies of the teams named actual_home and actual_away updated
RecordResult(tm, actual_home, actual_away, home_score, away_score) ==
    LET t1 == [tm EXCEPT ![PlaceOf(tm, actual_home)] =
                  update_stats(@, home_score, away_score)]
    IN  [t1 EXCEPT ![PlaceOf(t1, actual_away)] =
                  update_stats(@, away_score, home_score)]

\* enter_matchday_results, its loop over the offered fixtures from the j-th
\* on: for each the scores entered, the two teams looked up with
\* find_team_fuzzy, the result set and the two tallies updated; a fixture whose
\* team is not found is left as it is
RECURSIVE EnterResults(_, _, _, _, _)
EnterResults(tm, ms, offered, entered, j) ==
    IF j > Len(ms) THEN [teams |-> tm, matches |-> ms]
    ELSE IF j \notin offered THEN EnterResults(tm, ms, offered, entered, j + 1)
    ELSE LET actual_home_team == find_team_fuzzy(tm, ms[j].home_team)
             actual_away_team == find_team_fuzzy(tm, ms[j].away_team)
         IN  IF actual_home_team = NotFound \/ actual_away_team = NotFound
             THEN EnterResults(tm, ms, offered, entered, j + 1)
             ELSE EnterResults(
                      RecordResult(tm, actual_home_team, actual_away_team,
                                   entered[j][1], entered[j][2]),
                      [ms EXCEPT ![j] = set_result(@, entered[j][1], entered[j][2])],
                      offered, entered, j + 1)

\* a call of enter_matchday_results, the user entering valid scores for every
\* fixture offered
EnterMatchdayResults(matchday) ==
    LET offered == matchday_matches(matches, matchday)
    IN  /\ \E entered \in [offered -> Goals \X Goals] :
              LET after == EnterResults(teams, matches, offered, entered, 1)
              IN  /\ teams' = after.teams
                  /\ matches' = after.matches
        /\ pc' = "idle"
        /\ UNCHANGED simulatorVars

\* the teams mapping after add_team for each of the names in turn
RECURSIVE AddTeams(_, _)
AddTeams(tm, names) ==
    IF names = <<>> THEN tm ELSE AddTeams(add_team(tm, Head(names)), Tail(names))

\* a database whose teams have been added and that has no match yet
InitTeamsAdded ==
    /\ \E T \in 1..MaxTeams :
          \E names \in [1..T -> TeamNames] : teams = AddTeams(<<>>, names)
    /\ matches = <<>>
    /\ NoSimulation

NextDatabase ==
    \/ \E home_team \in TeamNames, away_team \in TeamNames, matchday \in Matchdays :
          CreateMatch(home_team, away_team, matchday)
    \/ \E matchday \in Matchdays : EnterMatchdayResults(matchday)

\* any sequence of create_match and enter_matchday_results calls on a database
\* of teams
SpecDatabase == InitTeamsAdded /\ [][NextDatabase]_vars

----------------------------------------------------------------------------
(* Properties *)

\* a step that simulates one unplayed fixture
SimulatedStep ==
    /\ pc = "sim"
    /\ k <= Len(matches_copy)
    /\ ~matches_copy[k].played
    /\ pc' = "sim"

\* a step that ends a run and folds it into the accumulators
FoldStep == pc = "sim" /\ pc' = "loop"

\* the end of a run: every fixture of the working list has been visited
RunEnded == pc = "sim" /\ k > Len(matches_copy)

SomeUnplayed == \E j \in DOMAIN matches : ~matches[j].played

Consistent(t) ==
    /\ t.points = 3 * t.wins + t.draws
    /\ t.matches_played = t.wins + t.draws + t.losses

TotalGoalsFor(tm) == SumOver([t \in DOMAIN tm |-> tm[t].goals_for], DOMAIN tm)

TotalGoalsAgainst(tm) == SumOver([t \in DOMAIN tm |-> tm[t].goals_against], DOMAIN tm)

HistogramTotal(fp, t) ==
    LET h == Get(fp, t, EmptyDict) IN SumOver(h, DOMAIN h)

\* C1: no step of run_simulations or of a single run changes the caller's
\* snapshot: the tally of every team and the played flag and result of every
\* fixture stay what they were before the call.
C1_SnapshotUnchanged == [][teams' = teams /\ matches' = matches]_vars

\* a call over at least one run has returned, and its runs had fixtures to simulate
C1_Witness ==
    /\ pc = "done"
    /\ n_simulations >= 1
    /\ SomeUnplayed
    /\ \E t \in DOMAIN teams : results.points_range[t][2] > teams[t].points

\* C2: when every team of the snapshot has points = 3*wins + draws and
\* matches_played = wins + draws + losses, every working team has both after
\* every simulated fixture and at the end of the run.
C2_TalliesStayConsistent ==
    (\A t \in DOMAIN teams : Consistent(teams[t]))
        => \A t \in DOMAIN teams_copy : Consistent(teams_copy[t])

\* a run has ended in which one team won a simulated fixture and one drew one
C2_Witness ==
    /\ RunEnded
    /\ \E t \in DOMAIN teams_copy : teams_copy[t].wins > teams[t].wins
    /\ \E t \in DOMAIN teams_copy : teams_copy[t].draws > teams[t].draws

\* C3: when the goals scored and the goals conceded of the snapshot add up to
\* the same total over all teams, so do those of the final state of every run.
C3_GoalsBalance ==
    (TotalGoalsFor(teams) = TotalGoalsAgainst(teams) /\ RunEnded)
        => TotalGoalsFor(teams_copy) = TotalGoalsAgainst(teams_copy)

\* a run has ended in which goals were scored
C3_Witness == RunEnded /\ TotalGoalsFor(teams_copy) > TotalGoalsFor(teams)

\* C4: the strengths simulate_match uses for an unplayed fixture come from the
\* working records of the run: the home team's working points plus the home
\* advantage, and the away team's working points.
C4_StrengthFromWorkingRecords ==
    [][SimulatedStep =>
          /\ home_strength' =
                teams_copy[matches_copy[k].home_team].points + HOME_ADVANTAGE
          /\ away_strength' = teams_copy[matches_copy[k].away_team].points]_vars

\* C5: the rank order recorded for a run is the order get_standings gives for
\* the final team records of that run: by (points, goal_difference, goals_for).
C5_RankOrderIsStandingsOrder ==
    [][FoldStep => sorted_teams' = get_standings(teams_copy)]_vars

\* the change of a team's qualification counter over a step
QualificationIncrement(t) ==
    Get(qualification_count', t, 0) - Get(qualification_count, t, 0)

Cutoffs == 1..(QUALIFY_CUTOFF + 1)

EmptyStatistics ==
    [returned |-> TRUE,
     final_positions |-> EmptyDict,
     qualification_probability |-> EmptyDict,
     average_points |-> EmptyDict,
     points_range |-> EmptyDict,
     n_simulations |-> 0]

C8_NoDivisionByZero ==
    /\ pc # "ZeroDivisionError"
    /\ (pc = "loop" /\ ~LoopContinues) => 0 \notin Denominators

\* the statistics were computed after no run at all, for a snapshot with teams
C8_Witness ==
    /\ pc = "done"
    /\ results.n_simulations = 0
    /\ DOMAIN teams # {}
    /\ DOMAIN results.qualification_probability = {}

\* C9: every completed run is folded exactly once for every team: between runs
\* each team's histogram counts and its number of recorded final points both
\* equal the number of runs completed, and in the returned statistics the
\* histogram counts of every team add up to run_count.
C9_OncePerTeamPerRun ==
    /\ pc = "loop" =>
          \A t \in DOMAIN teams :
              /\ HistogramTotal(final_positions, t) = i
              /\ Len(Get(points_distribution, t, <<>>)) = i
    /\ pc = "done" =>
          \A t \in DOMAIN teams :
              /\ HistogramTotal(results.final_positions, t) = n_simulations
              /\ Len(Get(points_distribution, t, <<>>)) = n_simulations

\* two runs or more were folded, one team in the same position twice and one
\* team in two positions
C9_Witness ==
    /\ pc = "done"
    /\ n_simulations >= 2
    /\ \E t \in DOMAIN teams : \E p \in DOMAIN results.final_positions[t] :
          results.final_positions[t][p] >= 2
    /\ \E t \in DOMAIN teams : Cardinality(DOMAIN results.final_positions[t]) >= 2

\* C10: after a call over at least one run, every per-team output of the
\* statistics has an entry for every team of the snapshot.
C10_EveryTeamInEveryOutput ==
    (pc = "done" /\ n_simulations >= 1) =>
        \A t \in DOMAIN teams :
            /\ t \in DOMAIN results.final_positions
            /\ t \in DOMAIN results.qualification_probability
            /\ t \in DOMAIN results.average_points
            /\ t \in DOMAIN results.points_range

\* the teams the returned statistics have an entry for
ReturnedTeams ==
    DOMAIN results.final_positions \cup DOMAIN results.qualification_probability
        \cup DOMAIN results.average_points \cup DOMAIN results.points_range

\* C11: for every team in the returned statistics, the qualification count is
\* between 0 and the number of runs (the probability between 0 and 100), and
\* the sum of its final points is between min_points * run_count and
\* max_points * run_count (the average between the minimum and the maximum).
C11_StatisticsWithinBounds ==
    pc = "done" =>
        \A t \in ReturnedTeams :
            /\ Get(qualification_count, t, 0) \in 0..results.n_simulations
            /\ t \in DOMAIN results.qualification_probability =>
                  LET q == results.qualification_probability[t]
                  IN  /\ q.den > 0
                      /\ 0 <= q.num
                      /\ q.num <= 100 * q.den
            /\ t \in DOMAIN results.average_points =>
                  LET a == results.average_points[t]
                      lo == results.points_range[t][1]
                      hi == results.points_range[t][2]
                  IN  /\ a.den = results.n_simulations
                      /\ lo * results.n_simulations <= a.num
                      /\ a.num <= hi * results.n_simulations
                      /\ lo * a.den <= a.num
                      /\ a.num <= hi * a.den

\* two runs or more have returned, one team with an average strictly between
\* its minimum and its maximum, one team qualified in every run
C11_Witness ==
    /\ pc = "done"
    /\ results.n_simulations >= 2
    /\ \E t \in DOMAIN results.average_points :
          /\ results.points_range[t][1] * results.n_simulations
                 < results.average_points[t].num
          /\ results.average_points[t].num
                 < results.points_range[t][2] * results.n_simulations
    /\ \E t \in DOMAIN results.qualification_probability :
          results.qualification_probability[t].num
              = 100 * results.qualification_probability[t].den

\* no unplayed fixture of the snapshot names team t, as home or as away
Idle(t) ==
    \A j \in DOMAIN matches :
        matches[j].played \/ (matches[j].home_team # t /\ matches[j].away_team # t)

\* C12: a team that no unplayed fixture of the snapshot names keeps its
\* snapshot points throughout every run, and the final points recorded for it
\* in every run are its snapshot points, whatever the simulated results are.
C12_IdleTeamKeepsPoints ==
    \A t \in DOMAIN teams :
        ((pc = "sim" \/ t \in DOMAIN points_distribution) /\ Idle(t)) =>
            /\ pc = "sim" => teams_copy[t].points = teams[t].points
            /\ \A r \in DOMAIN Get(points_distribution, t, <<>>) :
                  points_distribution[t][r] = teams[t].points

\* a run has ended and another was folded before it; a team with points from a
\* played fixture has no fixture left, and another team won points in this run
C12_Witness ==
    /\ RunEnded
    /\ i >= 1
    /\ \E t \in DOMAIN teams :
          /\ Idle(t)
          /\ teams[t].points > 0
          /\ Len(points_distribution[t]) >= 1
    /\ \E u \in DOMAIN teams : teams_copy[u].points > teams[u].points

\* every fixture of the snapshot is already played
AllPlayed == \A j \in DOMAIN matches : matches[j].played

\* a histogram with all n runs on the position team t has in the rank order
SinglePosition(order, t, n) == Put(EmptyDict, Position(order, t), n)

\* C13: for a snapshot in which every fixture is played, every run yields the
\* same rank order (the histogram of each team has all runs folded so far on
\* the position of the latest run, tied teams included), the returned
\* histogram of each team has all run_count runs on one position, and its
\* points_range is (p, p) for its snapshot points p.
C13_AllPlayedIsDeterministic ==
    AllPlayed =>
        /\ (pc = "loop" /\ i >= 1) =>
              \A t \in DOMAIN teams :
                  final_positions[t] = SinglePosition(sorted_teams, t, i)
        /\ (pc = "done" /\ n_simulations >= 1) =>
              \A t \in DOMAIN teams :
                  /\ results.final_positions[t]
                         = SinglePosition(sorted_teams, t, n_simulations)
                  /\ results.points_range[t] = <<teams[t].points, teams[t].points>>

\* two runs or more have returned for a snapshot of played fixtures only, with
\* two teams level on points and one team ahead of them
C13_Witness ==
    /\ pc = "done"
    /\ n_simulations >= 2
    /\ AllPlayed
    /\ matches # <<>>
    /\ \E t, u \in DOMAIN teams : t # u /\ teams[t].points = teams[u].points
    /\ \E t, u \in DOMAIN teams : teams[t].points > teams[u].points

\* the snapshot of the scenario: 2 teams, 1 fixture between them, unplayed
TwoTeamsOneFixture ==
    /\ DOMAIN teams = {1, 2}
    /\ Len(matches) = 1
    /\ ~matches[1].played
    /\ {matches[1].home_team, matches[1].away_team} = {1, 2}

\* the runs the returned histogram of team t has on positions 1 and 2
OnFirstOrSecond(t) ==
    LET h == Get(results.final_positions, t, EmptyDict)
    IN  Get(h, 1, 0) + Get(h, 2, 0)

\* the runs in which team t was counted as qualified, from the returned
\* probability: probability * run_count / 100
QualifiedRuns(t) ==
    IF t \in DOMAIN results.qualification_probability
    THEN (results.qualification_probability[t].num * results.n_simulations)
             \div (100 * results.qualification_probability[t].den)
    ELSE 0

Accumulators ==
    [final_positions |-> final_positions,
     points_distribution |-> points_distribution,
     qualification_count |-> qualification_count]

\* the final points run r returned, as the loop recorded them
RunOutcome(r) == [t \in DOMAIN points_distribution |-> points_distribution[t][r]]

\* the runs recorded, each with its final points and its rank order
RECURSIVE RankedRuns(_)
RankedRuns(r) ==
    IF r = 0 THEN <<>>
    ELSE Append(RankedRuns(r - 1),
                [final_points |-> RunOutcome(r) @@ <<>>,
                 order |-> SortByPoints(RunOutcome(r))])

\* the runs named by the sequence idx folded one after the other
RECURSIVE FoldRuns(_, _, _)
FoldRuns(acc, ranked, idx) ==
    IF idx = <<>> THEN acc
    ELSE FoldRuns(FoldRanked(acc, ranked[Head(idx)].order,
                             ranked[Head(idx)].final_points),
                  ranked, Tail(idx))

\* the statistics the claim compares: histogram, qualification counts, and
\* the sum, minimum and maximum of the points of every team
Statistics(acc) ==
    [histogram |-> acc.final_positions,
     qualification |-> acc.qualification_count,
     points_sum |-> [t \in DOMAIN acc.points_distribution |->
                        SumSeq(acc.points_distribution[t])],
     min_points |-> [t \in DOMAIN acc.points_distribution |->
                        MinSeq(acc.points_distribution[t])],
     max_points |-> [t \in DOMAIN acc.points_distribution |->
                        MaxSeq(acc.points_distribution[t])]]

\* two dicts of numbers merged by op, a key of one alone keeping its value
MergeWith(a, b, op) ==
    [x \in (DOMAIN a) \cup (DOMAIN b) |->
        IF x \notin DOMAIN b THEN a[x]
        ELSE IF x \notin DOMAIN a THEN b[x]
        ELSE IF op = "sum" THEN a[x] + b[x]
        ELSE IF op = "min" THEN Min(a[x], b[x])
        ELSE Max(a[x], b[x])]

\* partial statistics merged: counts and sums added, min and max taken
Merge(a, b) ==
    [histogram |->
         [t \in (DOMAIN a.histogram) \cup (DOMAIN b.histogram) |->
             MergeWith(Get(a.histogram, t, EmptyDict),
                       Get(b.histogram, t, EmptyDict), "sum")],
     qualification |-> MergeWith(a.qualification, b.qualification, "sum"),
     points_sum |-> MergeWith(a.points_sum, b.points_sum, "sum"),
     min_points |-> MergeWith(a.min_points, b.min_points, "min"),
     max_points |-> MergeWith(a.max_points, b.max_points, "max")]

\* C15: the reduction is independent of order and partitioning: when the loop
\* has folded its runs, folding the same run outcomes in any other order gives
\* the same histogram, qualification counts, points sum, min and max for every
\* team, and so does folding any first part and the rest of any such order
\* separately and merging the two partial statistics.
C15_FoldIsOrderAndPartitionIndependent ==
    (pc = "loop" /\ ~LoopContinues) =>
        LET whole == Statistics(Accumulators)
            ranked == RankedRuns(i)
        IN  \A perm \in Permutations(1..i) :
                LET idx == [r \in 1..i |-> perm[r]]
                IN  /\ Statistics(FoldRuns(EmptyAccumulators, ranked, idx)) = whole
                    /\ \A c \in 0..i :
                          Merge(Statistics(FoldRuns(EmptyAccumulators, ranked,
                                                    SubSeq(idx, 1, c))),
                                Statistics(FoldRuns(EmptyAccumulators, ranked,
                                                    SubSeq(idx, c + 1, i))))
                              = whole

\* two runs or more have been folded, two of them with different final points
\* and a different team ranked first
C15_Witness ==
    /\ pc = "loop"
    /\ ~LoopContinues
    /\ i >= 2
    /\ \E r, q \in 1..i :
          /\ RunOutcome(r) # RunOutcome(q)
          /\ SortByPoints(RunOutcome(r))[1] # SortByPoints(RunOutcome(q))[1]

\* a step in which a call returns its statistics
ReturnStep == pc = "loop" /\ pc' = "done"

\* C16: given the same snapshot, the same configuration and the same
\* run_count, two executions return identical statistics: when a call returns
\* and the caller still holds the statistics of a call before it with the same
\* n_simulations on the same snapshot, the two are equal.
C16_SameInputsSameStatistics ==
    [][(ReturnStep /\ results.returned /\ results.n_simulations = n_simulations)
          => results' = results]_vars

\* C18: when a call is cancelled after c < run_count runs have completed, it
\* returns the statistics of those c runs and reports c as its run count.
C18_CancelReturnsPartialStatistics ==
    (pc = "KeyboardInterrupt" /\ i < n_simulations) =>
        /\ results.returned
        /\ results.n_simulations = i
        /\ results.final_positions = final_positions

\* the fixtures the current run has simulated so far, a fixture that was
\* already played in the snapshot left out (as an unplayed entry)
OwnResults ==
    [j \in 1..(k - 1) |->
        IF matches[j].played THEN [matches[j] EXCEPT !.played = FALSE]
        ELSE matches_copy[j]]

Dangling(m) == m.home_team \notin DOMAIN teams \/ m.away_team \notin DOMAIN teams

\* the keys the run and the statistics have a record or an entry for
RecordedKeys ==
    DOMAIN teams_copy \cup DOMAIN final_positions \cup DOMAIN points_distribution
        \cup DOMAIN qualification_count
        \cup {sorted_teams[p] : p \in DOMAIN sorted_teams}

\* C19 (as amended): a run fails with a KeyError when it comes to an unplayed
\* fixture that names a key absent from the teams, and only then: it never
\* goes past such a fixture, so no run is completed and folded, while a played
\* fixture naming an absent key is skipped without error; no record or entry
\* is ever created for an absent key.
C19_UnplayedDanglingFixtureFails ==
    /\ RecordedKeys \subseteq DOMAIN teams
    /\ pc = "KeyError" =>
          /\ k \in DOMAIN matches
          /\ ~matches[k].played
          /\ Dangling(matches[k])
    /\ pc = "sim" =>
          \A j \in 1..(k - 1) : matches[j].played \/ ~Dangling(matches[j])
    /\ i >= 1 =>
          \A j \in DOMAIN matches : matches[j].played \/ ~Dangling(matches[j])

\* a run has failed at an unplayed fixture naming an absent key, after it had
\* simulated a fixture between two teams of the snapshot
C19_Witness ==
    /\ pc = "KeyError"
    /\ k >= 2
    /\ \E j \in 1..(k - 1) : ~matches[j].played /\ matches_copy[j].played

\* C19 (as claimed): a run fails whenever any fixture of the snapshot, played
\* or unplayed, names a key absent from the teams: with such a fixture no run
\* comes to its end and none is folded.
C19_AnyDanglingFixtureFails ==
    (\E j \in DOMAIN matches : Dangling(matches[j])) => (i = 0 /\ ~RunEnded)

\* x truncated toward zero, x in half goals: the integer n nearest to x from
\* the side of zero
TruncateTowardZero(x2) ==
    CHOOSE n \in Samples :
        IF x2 >= 0 THEN 2 * n <= x2 /\ x2 < 2 * n + 2
        ELSE 2 * n - 2 < x2 /\ x2 <= 2 * n

\* the fixtures the current run has simulated
SimulatedFixtures ==
    {j \in DOMAIN matches_copy : matches_copy[j].played /\ ~matches[j].played}

\* for every sample the score is the sample clamped, then truncated, and int()
\* is the truncation toward zero
EverySampleClampedThenTruncated ==
    \A x2 \in Samples :
        /\ IntOf(x2) = TruncateTowardZero(x2)
        /\ ScoreOf(x2) = TruncateTowardZero(Max(0, x2))
        /\ ScoreOf(x2) \in Nat

\* C20: for every sampled value x, negative, zero or positive, the score of
\* simulate_match (truncate, then clamp) is x clamped to zero and then
\* truncated toward zero, an integer >= 0; and so is every score a run has
\* written to a simulated fixture.
C20_ScoreIsClampedThenTruncated ==
    /\ EverySampleClampedThenTruncated
    /\ \A j \in SimulatedFixtures :
          /\ matches_copy[j].home_score \in SimulatedScores \cap Nat
          /\ matches_copy[j].away_score \in SimulatedScores \cap Nat

\* a run has simulated a fixture that ended 1-0, and a negative sample that
\* truncates to a negative integer gives the score 0
C20_Witness ==
    /\ RunEnded
    /\ \E j \in SimulatedFixtures :
          matches_copy[j].home_score = 1 /\ matches_copy[j].away_score = 0
    /\ \E x2 \in Samples : x2 < 0 /\ IntOf(x2) < 0 /\ ScoreOf(x2) = 0

\* the sum of matches_played over the teams
TotalMatchesPlayed(tm) == SumOver([t \in DOMAIN tm |-> tm[t].matches_played], DOMAIN tm)

\* the fixtures unplayed in the snapshot among the first n of the list
UnplayedAmongFirst(n) == {j \in 1..n : ~matches[j].played}

\* what holds at every point of a call: the loop has made at most
\* n_simulations turns, every fixture the run has passed is played in the
\* working list and was counted once for each of its two teams, every fixture
\* it has not reached is as in the snapshot, and the statistics returned
\* report the number of runs folded
ExactlyOncePerFixtureAndRun ==
    /\ i <= n_simulations
    /\ pc = "sim" =>
          /\ k \in 1..(Len(matches) + 1)
          /\ \A j \in 1..(k - 1) : matches_copy[j].played
          /\ \A j \in k..Len(matches) : matches_copy[j] = matches[j]
          /\ TotalMatchesPlayed(teams_copy)
                 = TotalMatchesPlayed(teams) + 2 * Cardinality(UnplayedAmongFirst(k - 1))
    /\ pc = "done" =>
          /\ i = n_simulations
          /\ results.n_simulations = i
          /\ \A t \in DOMAIN points_distribution : Len(points_distribution[t]) = i

\* C21: a call with n_simulations >= 1 terminates after exactly n_simulations
\* runs, each run ends after simulating every fixture unplayed in the snapshot
\* exactly once, and the run count of the result is the number of runs
\* folded.
C21_TerminatesAfterExactlyNRuns ==
    /\ []ExactlyOncePerFixtureAndRun
    /\ (pc \in {"loop", "sim"} /\ n_simulations >= 1)
           ~> (pc = "done" /\ i = n_simulations)

\* a call over two runs or more has returned for a snapshot with two unplayed
\* fixtures or more
C21_Witness ==
    /\ pc = "done"
    /\ results.n_simulations >= 2
    /\ Cardinality(UnplayedAmongFirst(Len(matches))) >= 2

\* whether a fixture has a result: both scores entered
HasResult(m) == m.home_score # None /\ m.away_score # None

\* C22: within a run the unplayed fixtures are simulated in list order: the
\* fixtures before the loop's position are all played with a result present,
\* those from it on are still as in the snapshot; a fixture played in the
\* snapshot keeps its recorded result throughout and is never applied to a
\* tally again (the tallies have grown by the simulated fixtures only), so at
\* the end of the run the whole working list is played
C22_SimulatedInListOrderPlayedKept ==
    pc = "sim" =>
        /\ \A j \in DOMAIN matches_copy :
              /\ j < k => matches_copy[j].played /\ HasResult(matches_copy[j])
              /\ j >= k => matches_copy[j] = matches[j]
              /\ matches[j].played => matches_copy[j] = matches[j]
        /\ \A t \in DOMAIN teams_copy :
              teams_copy[t].matches_played - teams[t].matches_played
                  = Cardinality({j \in UnplayedAmongFirst(k - 1) :
                                    t \in {matches[j].home_team, matches[j].away_team}})
                    + Cardinality({j \in UnplayedAmongFirst(k - 1) :
                                    matches[j].home_team = t /\ matches[j].away_team = t})

C22_Witness ==
    /\ RunEnded
    /\ \E j1, j2 \in DOMAIN matches :
          /\ j1 < j2
          /\ ~matches[j1].played
          /\ matches[j2].played
          /\ matches[j2].home_score + matches[j2].away_score > 0
          /\ matches_copy[j1].home_score # matches_copy[j1].away_score

\* a tally after one more match with gf goals scored and ga conceded, as the
\* claim words it
TallyAfter(t, gf, ga) ==
    [matches_played |-> t.matches_played + 1,
     wins           |-> t.wins + (IF gf > ga THEN 1 ELSE 0),
     draws          |-> t.draws + (IF gf = ga THEN 1 ELSE 0),
     losses         |-> t.losses + (IF gf < ga THEN 1 ELSE 0),
     goals_for      |-> t.goals_for + gf,
     goals_against  |-> t.goals_against + ga,
     points         |-> t.points + (IF gf > ga THEN 3 ELSE IF gf = ga THEN 1 ELSE 0)]

\* C23: a step that simulates one fixture with scores (h, a) changes the working
\* tallies of the home and the away team and of no other team: one match more
\* for both, the home team h goals for and a against, the away team a for and h
\* against, three points and a win to the higher score and a loss to the other,
\* one point and a draw to both on equal scores
C23_OneFixtureChangesItsTwoTeams ==
    [][SimulatedStep =>
          LET home == matches_copy[k].home_team
              away == matches_copy[k].away_team
              h == matches_copy'[k].home_score
              a == matches_copy'[k].away_score
          IN  /\ DOMAIN teams_copy' = DOMAIN teams_copy
              /\ \A t \in DOMAIN teams_copy :
                    teams_copy'[t] = IF t = home THEN TallyAfter(teams_copy[t], h, a)
                                     ELSE IF t = away THEN TallyAfter(teams_copy[t], a, h)
                                     ELSE teams_copy[t]]_vars

C23_Witness ==
    /\ pc = "sim"
    /\ k = 3
    /\ ~matches[1].played /\ ~matches[2].played
    /\ matches_copy[1].home_score < matches_copy[1].away_score
    /\ matches_copy[2].home_score = matches_copy[2].away_score
    /\ \E t \in DOMAIN teams_copy :
          /\ \A j \in 1..2 : t \notin {matches[j].home_team, matches[j].away_team}
          /\ teams_copy[t] = teams[t]
    /\ teams_copy[matches[1].away_team].wins = teams[matches[1].away_team].wins + 1

\* the number of runs folded into the accumulators: every team of a run gets
\* one more entry in its list of final points
RunsFolded ==
    IF DOMAIN points_distribution = {}
    THEN 0
    ELSE Len(points_distribution[CHOOSE t \in DOMAIN points_distribution : TRUE])

\* C24: progress is truthful: when a progress line (runs_completed = c,
\* run_count = N) is printed, exactly c runs have been completed and folded
\* into the accumulators at that moment, and N is the run count of the call
C24_ProgressReportsFoldedRuns ==
    [][Len(progress') > Len(progress) =>
          /\ progress'[Len(progress')].runs_completed = RunsFolded'
          /\ progress'[Len(progress')].run_count = n_simulations']_vars

\* the fixtures held in a state: those of the database and the working
\* fixtures of the run in progress
FixturesHeld ==
    {matches[j] : j \in DOMAIN matches} \cup {matches_copy[j] : j \in DOMAIN matches_copy}

\* C25: every fixture, whether built by the Match constructor, given a result
\* by set_result, read by load_from_file or held in the working list of a run,
\* has its result present (both scores not None) exactly when its played flag
\* is true
C25_ResultPresentIffPlayed ==
    \A m \in FixturesHeld : HasResult(m) <=> m.played

C25_Witness ==
    /\ pc = "sim"
    /\ k = 2
    /\ Len(matches) = 2
    /\ ~matches[1].played /\ matches[2].played
    /\ matches_copy[1].played /\ HasResult(matches_copy[1])
    /\ matches[1].home_score = None /\ matches[1].away_score = None

\* the number of runs in which some team finished on position p
RunsWithPosition(fp, p) ==
    SumOver([t \in DOMAIN teams |-> Get(Get(fp, t, EmptyDict), p, 0)], DOMAIN teams)

\* C26: the positions of a run are a permutation of 1..T, T the number of
\* teams: the rank order of the latest run holds every team once, after i folded
\* runs every position of 1..T has been taken i times over all teams, no
\* histogram holds a position outside 1..T, and the returned histograms are
\* those of all n_simulations runs
C26_PositionsArePermutation ==
    LET T == Cardinality(DOMAIN teams)
    IN  /\ pc = "loop" =>
              /\ \A q \in 1..T : RunsWithPosition(final_positions, q) = i
              /\ \A t \in DOMAIN final_positions :
                    DOMAIN final_positions[t] \subseteq 1..T
              /\ i >= 1 =>
                    /\ Len(sorted_teams) = T
                    /\ {sorted_teams[q] : q \in 1..T} = DOMAIN teams
        /\ pc = "done" =>
              /\ i = n_simulations
              /\ results.final_positions = final_positions

C26_Witness ==
    /\ pc = "done"
    /\ n_simulations >= 2
    /\ \E t \in DOMAIN final_positions : Cardinality(DOMAIN final_positions[t]) >= 2
    /\ RunsWithPosition(results.final_positions, 1) = n_simulations

\* the unplayed fixtures of the snapshot that name team t
UnplayedNaming(t) ==
    {j \in DOMAIN matches :
        ~matches[j].played /\ t \in {matches[j].home_team, matches[j].away_team}}

\* the unplayed fixtures of the snapshot
Unplayed == {j \in DOMAIN matches : ~matches[j].played}

\* whether final points fp (team -> points) of a run are within the bounds the
\* snapshot gives: per team, and in total over all teams
WithinSnapshotBounds(fp) ==
    LET gained == SumOver([t \in DOMAIN fp |-> fp[t] - teams[t].points], DOMAIN fp)
    IN  /\ \A t \in DOMAIN fp :
              /\ teams[t].points <= fp[t]
              /\ fp[t] <= teams[t].points + 3 * Cardinality(UnplayedNaming(t))
        /\ 2 * Cardinality(Unplayed) <= gained
        /\ gained <= 3 * Cardinality(Unplayed)

\* C27: the final points of every team in every run are at least its snapshot
\* points and at most these plus 3 for every unplayed fixture that names it,
\* and the points gained by all teams in a run lie between 2 * U and 3 * U, U
\* the number of unplayed fixtures of the snapshot; stated of the run that has
\* just ended and of the run folded last
C27_FinalPointsBoundedBySnapshot ==
    /\ RunEnded => WithinSnapshotBounds([t \in DOMAIN teams_copy |-> teams_copy[t].points])
    /\ (i >= 1 /\ pc = "loop") =>
           WithinSnapshotBounds([t \in DOMAIN points_distribution |->
                                    points_distribution[t][i]])

C27_Witness ==
    /\ pc = "done"
    /\ n_simulations = 2
    /\ Cardinality(Unplayed) = 2
    /\ \E t \in DOMAIN teams :
          /\ Cardinality(UnplayedNaming(t)) = 2
          /\ points_distribution[t][1] = teams[t].points + 6
          /\ points_distribution[t][2] = teams[t].points
    /\ \E t \in DOMAIN teams :
          /\ UnplayedNaming(t) = {}
          /\ points_distribution[t][1] = teams[t].points

\* the final points of the run folded last
LatestFinalPoints == [t \in DOMAIN points_distribution |-> points_distribution[t][i]]

\* C28: ties are broken by the order of insertion into the teams mapping (the
\* order of the team keys): in the standings of the database tallies and in
\* the rank order of the run folded last, a team
\* stands before another only if its sort key is not the smaller one, and of two
\* teams equal on the sort key the one inserted first stands first
C28_TiesKeepInsertionOrder ==
    /\ pc = "idle" =>
          LET standings == get_standings(teams)
          IN  \A p, q \in DOMAIN standings :
                 p < q =>
                    /\ ~StandingsKeyGt(teams[standings[q]], teams[standings[p]])
                    /\ ~StandingsKeyGt(teams[standings[p]], teams[standings[q]])
                           => standings[p] < standings[q]
    /\ (i >= 1 /\ pc = "loop") =>
          \A p, q \in DOMAIN sorted_teams :
             p < q =>
                /\ LatestFinalPoints[sorted_teams[p]] >= LatestFinalPoints[sorted_teams[q]]
                /\ LatestFinalPoints[sorted_teams[p]] = LatestFinalPoints[sorted_teams[q]]
                       => sorted_teams[p] < sorted_teams[q]

C28_Witness ==
    /\ pc = "loop"
    /\ i >= 1
    /\ \E p, q \in DOMAIN sorted_teams :
          /\ p + 1 < q
          /\ LatestFinalPoints[sorted_teams[p]] > LatestFinalPoints[sorted_teams[p + 1]]
          /\ LatestFinalPoints[sorted_teams[p + 1]] = LatestFinalPoints[sorted_teams[q]]
          /\ sorted_teams[p] > sorted_teams[q]

\* every fixture of the match list names two teams of the database
FixturesNameTeams ==
    \A j \in DOMAIN matches :
        /\ matches[j].home_team \in TeamKeys(teams)
        /\ matches[j].away_team \in TeamKeys(teams)

\* C29: a create_match call whose home or away team is not in the database
\* raises ValueError and leaves the match list and all team records as they
\* were, any other call appends the fixture; hence after any sequence of
\* add_team and create_match calls every fixture of the match list names two
\* teams that exist in the database
C29_CreateMatchChecksBothTeams ==
    /\ []FixturesNameTeams
    /\ [][\A home_team \in TeamNames, away_team \in TeamNames, matchday \in Matchdays :
             CreateMatch(home_team, away_team, matchday) =>
                IF home_team \notin TeamKeys(teams) \/ away_team \notin TeamKeys(teams)
                THEN pc' = "ValueError" /\ matches' = matches /\ teams' = teams
                ELSE /\ pc' # "ValueError"
                     /\ teams' = teams
                     /\ matches' = Append(matches,
                                          NewMatch(home_team, away_team, matchday))]_vars

C29_Witness ==
    /\ pc = "ValueError"
    /\ Len(teams) = 2
    /\ Len(matches) = 1
    /\ FixturesNameTeams

\* no two keys of the teams mapping are equal when case is ignored
DistinctIgnoringCase(tm) ==
    \A p, q \in DOMAIN tm : p # q => lower(tm[p].name) # lower(tm[q].name)

\* the played fixtures that name a team
PlayedNaming(name) ==
    {j \in DOMAIN matches :
        matches[j].played /\ name \in {matches[j].home_team, matches[j].away_team}}

\* C30: no result is counted twice: in a database whose team names are
\* distinct when case is ignored, after any sequence of create_match and
\* enter_matchday_results calls every team's matches_played is the number of
\* played fixtures that name it, and no fixture offered for result entry is
\* already played
C30_NoResultCountedTwice ==
    DistinctIgnoringCase(teams) =>
        /\ \A p \in DOMAIN teams :
              teams[p].matches_played = Cardinality(PlayedNaming(teams[p].name))
        /\ \A matchday \in Matchdays :
              \A j \in matchday_matches(matches, matchday) : ~matches[j].played

====
